---- MODULE Spec2Model ----
(***************************************************************************)
(* Model of the JSON-RPC 2.0 dispatch core of json_rpc_v2:                 *)
(* protocol.rs (Id, Request, Response, Error), registry.rs (Registry,      *)
(* call, call_one, call_batch) and the handlers the repository ships       *)
(* (tests::sum in registry.rs, System::time in examples/hyper.rs).         *)
(*                                                                         *)
(* Option<T> is a sequence of length 0 (None) or 1 (Some).                 *)
(***************************************************************************)
EXTENDS Integers, Sequences, FiniteSets

VARIABLES
    methods,    \* Registry.methods: name -> Method, "none" for a missing key
    pc,         \* position of the one dispatch call being served
    payload,    \* the bytes handed to Registry::call
    batch_req,  \* the parsed Request(s) of the call in progress
    idx,        \* position of call_batch's for loop in batch_req
    wait,       \* call_batch: responses still awaited
    chan,       \* call_batch: messages in the unbounded channel
    senders,    \* call_batch: live Sender handles (tx and its clones)
    task,       \* call_batch: state of the task spawned for each entry
    response,   \* call_batch: the Vec<Response> being collected
    reply,      \* Option<Value> returned by Registry::call
    outcome,    \* per entry, how its handler's future ended (history)
    built,      \* the Responses constructed by the call, in order (history)
    written,    \* registrations: per name the Method of the latest one, and
                \* the names registered more than once (history, the latter
                \* kept until the first call)
    prev        \* an earlier single call and its reply (history)

vars == <<methods, pc, payload, batch_req, idx, wait, chan, senders, task,
          response, reply, outcome, built, written, prev>>

(***************************************************************************)
(* Bounds of the model.                                                    *)
(***************************************************************************)
MaxBatch == 2

(***************************************************************************)
(* JSON values.  t is the JSON type, n the integer of an "int", s the text *)
(* of a "str" (or of a non-integer number), elems the members of an array  *)
(* or object (k is the key of an object member, "" in an array).           *)
(* t = "absent" stands for a field that the object does not have.          *)
(***************************************************************************)
J(t, n, s, elems) == [t |-> t, n |-> n, s |-> s, elems |-> elems]
JNull == J("null", 0, "", <<>>)
JInt(n) == J("int", n, "", <<>>)
JStr(s) == J("str", 0, s, <<>>)
JFloat(s) == J("float", 0, s, <<>>)
JArr(elems) == J("array", 0, "", elems)
JObj(elems) == J("object", 0, "", elems)
Absent == J("absent", 0, "", <<>>)
El(k, t, n, s) == [k |-> k, t |-> t, n |-> n, s |-> s]

(***************************************************************************)
(* protocol.rs: Id, Request, Error, Response.                              *)
(***************************************************************************)
Some(v) == <<v>>
None == <<>>

\* enum Id { Number(i64), String(String), Null, Notification }
IdNumber(n) == [kind |-> "Number", n |-> n, s |-> ""]
IdString(s) == [kind |-> "String", n |-> 0, s |-> s]
IdNull == [kind |-> "Null", n |-> 0, s |-> ""]
IdNotification == [kind |-> "Notification", n |-> 0, s |-> ""]

\* Id::is_notification
is_notification(id) == id.kind = "Notification"

\* DeId reading null as the notification marker
DeId_null_as_notification(v) ==
    IF v.t = "int" THEN Some(IdNumber(v.n))
    ELSE IF v.t = "str" THEN Some(IdString(v.s))
    ELSE IF v.t = "null" THEN Some(IdNotification)
    ELSE None

\* #[serde(untagged)] Deserialize for Id: the first variant that accepts the
\* value, an error when none does.  Number(i64) accepts a JSON integer (the
\* integers of the model are all within i64), not a number with a fraction.
DeId(v) ==
    IF v.t = "int" THEN Some(IdNumber(v.n))
    ELSE IF v.t = "str" THEN Some(IdString(v.s))
    ELSE IF v.t = "null" THEN Some(IdNull)
    ELSE None

\* #[serde(untagged)] Serialize for Id: both unit variants become null.
SerId(id) ==
    IF id.kind = "Number" THEN JInt(id.n)
    ELSE IF id.kind = "String" THEN JStr(id.s)
    ELSE JNull

\* DeV2_0 without the comparison with "2.0"
DeV2_0_any_string(v) == v.t = "str"

\* Deserialize for V2_0: a string equal to "2.0"
DeV2_0(v) == v.t = "str" /\ v.s = "2.0"

\* #[derive(Deserialize)] struct Request, for one JSON value m of the
\* payload.  form is "object" for a JSON object.  jsonrpc, method and
\* params are required fields; id has #[serde(default)].
DeRequest(m) ==
    IF /\ m.form = "object"
       /\ DeV2_0(m.jsonrpc)
       /\ m.method.t = "str"
       /\ m.params.t # "absent"
       /\ (m.id.t = "absent" \/ DeId(m.id) # None)
    THEN Some([method |-> m.method.s,
               params |-> m.params,
               id |-> IF m.id.t = "absent" THEN IdNotification
                      ELSE DeId(m.id)[1]])
    ELSE None

\* struct Error and its constructors (data is None in all of them)
Error(code, message) == [code |-> code, message |-> message, data |-> None]
parse_error_code == -32700
invalid_request_code == -32600
method_not_found_code == -32601
invalid_params_code == -32602
server_error_code == -32000
Error_parse_error == Error(parse_error_code, "Parse error")
Error_invalid_request == Error(invalid_request_code, "Invalid Request")
Error_method_not_found == Error(method_not_found_code, "Method not found")
Error_invalid_params == Error(invalid_params_code, "Invalid params")
Error_server_error == Error(server_error_code, "Server error")

\* Response::ok and Response::error.  origin is not a field of the program's
\* Response: it records the batch position of the request the Response was
\* built for (0 when it was built for no request) and is dropped by to_value.
Response_ok(id, result, origin) ==
    [result |-> Some(result), error |-> None, id |-> id, origin |-> origin]
Response_error(id, error, origin) ==
    [result |-> None, error |-> Some(error), id |-> id, origin |-> origin]

\* #[derive(Serialize)] for Response through serde_json::to_value: result and
\* error are skipped when None, so an Option here is the key being present.
SerResponse(r) ==
    [jsonrpc |-> "2.0", result |-> r.result, error |-> r.error,
     id |-> SerId(r.id)]

RECURSIVE SerAll(_)
SerAll(rs) ==
    IF rs = <<>> THEN <<>> ELSE <<SerResponse(Head(rs))>> \o SerAll(Tail(rs))

\* to_value of one Response, and of a Vec<Response>
to_value_one(r) == [array |-> FALSE, items |-> <<SerResponse(r)>>]
to_value_vec(rs) == [array |-> TRUE, items |-> SerAll(rs)]

(***************************************************************************)
(* Handlers (type Method): the async functions the repository registers.   *)
(* An outcome is what polling the handler's future to its end produces:    *)
(* Ok(value), Err(error), or a panic.                                      *)
(***************************************************************************)
Ok(v) == [kind |-> "Ok", value |-> v, error |-> Error(0, "")]
Err(e) == [kind |-> "Err", value |-> JNull, error |-> e]
Panic == [kind |-> "Panic", value |-> JNull, error |-> Error(0, "")]
\* no future of the handler was polled
NotRun == [kind |-> "NotRun", value |-> JNull, error |-> Error(0, "")]

\* Value::as_i64 of a member of an array or object
as_i64(e) == IF e.t = "int" THEN Some(e.n) ELSE None

\* serde_json Map::get(key).and_then(Value::as_i64)
RECURSIVE get_i64(_, _)
get_i64(elems, key) ==
    IF elems = <<>> THEN None
    ELSE IF Head(elems).k = key THEN as_i64(Head(elems))
    ELSE get_i64(Tail(elems), key)

\* tests::sum: a.unwrap() + b.unwrap() panics when exactly one of a, b is
\* None, because the test is a.is_some() || b.is_some().
sum(args) ==
    LET ab == IF args.t = "array" /\ Len(args.elems) >= 2
                 THEN Some(<<as_i64(args.elems[1]), as_i64(args.elems[2])>>)
              ELSE IF args.t = "object"
                 THEN Some(<<get_i64(args.elems, "a"), get_i64(args.elems, "b")>>)
              ELSE None
    IN  IF ab = None THEN {Err(Error_invalid_params)}
        ELSE LET a == ab[1][1]
                 b == ab[1][2]
             IN  IF a # None \/ b # None
                 THEN IF a # None /\ b # None THEN {Ok(JInt(a[1] + b[1]))}
                      ELSE {Panic}
                 ELSE {Err(Error_invalid_params)}

\* System::time behind the adapter #[json_rpc] generates: params that are
\* neither an array nor an object are invalid; the function takes no
\* argument, and the clock may be before the epoch.
time(args) ==
    IF args.t \in {"array", "object"}
    THEN {Ok(JInt(1700000000)), Err(Error_server_error)}
    ELSE {Err(Error_invalid_params)}

Handlers == {"sum", "time"}

\* Outcomes with every Method reading the clock as System::time does
Outcomes_by_clock(method, params) == time(params)

\* Calling a Method and polling the future it returns to completion
Outcomes(method, params) ==
    IF method = "sum" THEN sum(params) ELSE time(params)

(***************************************************************************)
(* Payloads: the bytes given to Registry::call, described by what          *)
(* Registry::call and serde_json::from_slice read of them.                 *)
(*   lead    the bytes start with white space                              *)
(*   kind    the first other byte: "obj" for '{', "arr" for '[', "other"   *)
(*   syntax  the bytes are well-formed JSON                                *)
(*   members the JSON object (kind "obj") or the elements of the array     *)
(*           (kind "arr"), each with the four fields a Request reads       *)
(***************************************************************************)
Member(form, jsonrpc, method, params, id) ==
    [form |-> form, jsonrpc |-> jsonrpc, method |-> method,
     params |-> params, id |-> id]
Payload(lead, kind, syntax, members) ==
    [lead |-> lead, kind |-> kind, syntax |-> syntax, members |-> members]

V20 == JStr("2.0")
P34 == JArr(<<El("", "int", 3, ""), El("", "int", 4, "")>>)
PObj34 == JObj(<<El("a", "int", 3, ""), El("b", "int", 4, "")>>)
PHalf == JArr(<<El("", "int", 3, ""), El("", "str", 0, "x")>>)
Names == {"sum", "sum1"}

\* The table Provider::methods() of System, which #[json_rpc] generates from
\* `impl System { fn time, async fn issue }`: the names are prefixed with the
\* lower-cased type name.
System_methods == <<<<"system.time", "time">>, <<"system.issue", "issue">>>>

\* Every name and Method a registration of the model can use
AllNames == Names \cup {"system.time", "system.issue"}
AllMethods == Handlers \cup {"issue"}

\* Elements a batch of the model is made of: requests and notifications for
\* both names, a request whose handler panics under sum, a wrong version tag.
BatchMembers ==
    {Member("object", V20, JStr(m), P34, id) :
        m \in Names, id \in {JInt(1), Absent}}
    \cup {Member("object", V20, JStr("sum"), P34, JInt(2)),
          Member("object", V20, JStr("sum"), PHalf, JInt(2)),
          Member("object", JStr("2.1"), JStr("sum"), P34, JInt(1))}

\* The further objects a single request of the model can be
SingleMembers ==
    BatchMembers
    \cup {Member("object", V20, JStr(m), P34, id) :
            m \in Names, id \in {JNull, JStr("a"), JFloat("1.1")}}
    \cup {Member("object", V20, JStr("sum"), p, id) :
            p \in {PObj34, JNull, Absent, PHalf}, id \in {JInt(1), Absent}}
    \cup {Member("object", Absent, JStr("sum"), P34, JInt(1)),
          Member("object", V20, JInt(1), P34, JInt(1)),
          Member("object", V20, Absent, P34, JInt(1))}

\* A batch element that is no object, as in [1]
Scalar == Member("scalar", Absent, Absent, Absent, Absent)

Batches == UNION {[1..n -> BatchMembers] : n \in 0..MaxBatch}

Payloads ==
    {Payload(FALSE, "obj", TRUE, <<m>>) : m \in SingleMembers}
    \cup {Payload(FALSE, "arr", TRUE, b) : b \in Batches}
    \cup {Payload(FALSE, "arr", TRUE, <<Scalar>>)}
    \cup {Payload(FALSE, k, FALSE, <<>>) : k \in {"obj", "arr", "other"}}
    \cup {Payload(TRUE, "obj", TRUE,
                  <<Member("object", V20, JStr("sum"), P34, JInt(1))>>),
          Payload(TRUE, "arr", TRUE,
                  <<Member("object", V20, JStr("sum"), P34, JInt(1))>>)}

\* The first byte of the payload, which Registry::call matches on
FirstByte(p) ==
    IF p.lead THEN " "
    ELSE IF p.kind = "obj" THEN "{"
    ELSE IF p.kind = "arr" THEN "["
    ELSE "x"

\* serde_json::from_slice::<Request>
from_slice_request(p) ==
    IF p.syntax /\ p.kind = "obj" THEN DeRequest(p.members[1]) ELSE None

\* from_slice_batch keeping the elements before the first one that fails
from_slice_batch_prefix(p) ==
    IF p.syntax /\ p.kind = "arr"
    THEN LET ok(k) == DeRequest(p.members[k]) # None
             n == CHOOSE n \in 0..Len(p.members) :
                     /\ \A k \in 1..n : ok(k)
                     /\ n = Len(p.members) \/ ~ok(n + 1)
         IN  Some([k \in 1..n |-> DeRequest(p.members[k])[1]])
    ELSE None

\* serde_json::from_slice::<Vec<Request>>: every element must deserialize
from_slice_batch(p) ==
    IF /\ p.syntax
       /\ p.kind = "arr"
       /\ \A k \in 1..Len(p.members) : DeRequest(p.members[k]) # None
    THEN Some([k \in 1..Len(p.members) |-> DeRequest(p.members[k])[1]])
    ELSE None

(***************************************************************************)
(* registry.rs: Registry.                                                  *)
(***************************************************************************)
TypeOK ==
    /\ methods \in [AllNames -> AllMethods \cup {"none"}]
    /\ written.latest \in [AllNames -> AllMethods \cup {"none"}]
    /\ written.replaced \subseteq AllNames
    /\ Len(built) <= MaxBatch
    /\ prev.set \in BOOLEAN
    /\ pc \in {"init", "idle", "call_one", "submit", "recv", "returned",
              "unwound"}
    /\ payload \in Payloads
    /\ idx \in 1..(MaxBatch + 1)
    /\ wait \in 0..MaxBatch
    /\ senders \in 0..(MaxBatch + 1)
    /\ Len(chan) <= MaxBatch
    /\ Len(response) <= MaxBatch
    /\ DOMAIN task = 1..Len(batch_req)
    /\ Len(reply) <= 1
    /\ DOMAIN outcome = 1..Len(batch_req)

\* No call has been remembered
NoPrev ==
    [set |-> FALSE, payload |-> Payload(FALSE, "other", FALSE, <<>>),
     reply |-> None]

\* Registry::new, before any request is served
Init ==
    /\ methods = [n \in AllNames |-> "none"]
    /\ built = <<>>
    /\ written = [latest |-> [n \in AllNames |-> "none"], replaced |-> {}]
    /\ prev = NoPrev
    /\ pc = "init"
    /\ payload = Payload(FALSE, "other", FALSE, <<>>)
    /\ batch_req = <<>>
    /\ idx = 1
    /\ wait = 0
    /\ chan = <<>>
    /\ senders = 0
    /\ task = <<>>
    /\ response = <<>>
    /\ reply = None
    /\ outcome = <<>>

\* insert that keeps the entry a name already has
insert_if_vacant(map, name, method) ==
    IF map[name] = "none" THEN [map EXCEPT ![name] = method] ELSE map

\* HashMap::insert: the value replaces the one the key had
insert(map, name, method) == [map EXCEPT ![name] = method]

\* Registry::register_method
register_method(name, method) ==
    /\ pc = "init"
    /\ methods' = insert(methods, name, method)
    /\ written' = [latest |-> [written.latest EXCEPT ![name] = method],
                   replaced |-> IF methods[name] # "none"
                                THEN written.replaced \cup {name}
                                ELSE written.replaced]
    /\ UNCHANGED <<pc, payload, batch_req, idx, wait, chan, senders, task,
                   response, reply, outcome, built, prev>>

\* The for loop of Registry::register over the pairs of a table
RECURSIVE insert_all(_, _)
insert_all(map, table) ==
    IF table = <<>> THEN map
    ELSE insert_all(insert(map, Head(table)[1], Head(table)[2]), Tail(table))

\* The latest Method a table gives a name, old when it gives none
RECURSIVE latest_in(_, _, _)
latest_in(table, name, old) ==
    IF table = <<>> THEN old
    ELSE latest_in(Tail(table), name,
                   IF Head(table)[1] = name THEN Head(table)[2] ELSE old)

\* The names for which a table replaces a Method: the names that had one in
\* map, and the names the table gives twice
RECURSIVE replaced_in(_, _, _)
replaced_in(table, map, old) ==
    IF table = <<>> THEN old
    ELSE replaced_in(Tail(table),
                     [map EXCEPT ![Head(table)[1]] = Head(table)[2]],
                     IF map[Head(table)[1]] # "none"
                     THEN old \cup {Head(table)[1]} ELSE old)

\* Registry::register::<T>, with table = T::methods()
register(table) ==
    /\ pc = "init"
    /\ methods' = insert_all(methods, table)
    /\ written' = [latest |-> [n \in AllNames |->
                                  latest_in(table, n, written.latest[n])],
                   replaced |-> replaced_in(table, methods, written.replaced)]
    /\ UNCHANGED <<pc, payload, batch_req, idx, wait, chan, senders, task,
                   response, reply, outcome, built, prev>>

\* Registry::get_method
get_method(method) ==
    IF method \in DOMAIN methods /\ methods[method] # "none"
    THEN Some(methods[method]) ELSE None

\* parse_error() and invalid_request()
parse_error == to_value_one(Response_error(IdNull, Error_parse_error, 0))

\* invalid_request built from Error::parse_error
invalid_request_as_parse_error ==
    to_value_one(Response_error(IdNull, Error_parse_error, 0))

invalid_request == to_value_one(Response_error(IdNull, Error_invalid_request, 0))

\* Registry::call_one, the arms for a method that is not registered
call_one_not_found(req) ==
    IF ~is_notification(req.id)
    THEN Some(Response_error(req.id, Error_method_not_found, 1))
    ELSE None

\* call_one_found with the handler's error replaced by a standard one
call_one_found_generic_error(req, o) ==
    IF o.kind = "Ok" /\ ~is_notification(req.id)
    THEN Some(Response_ok(req.id, o.value, 1))
    ELSE IF o.kind = "Err" /\ ~is_notification(req.id)
    THEN Some(Response_error(req.id, Error_invalid_params, 1))
    ELSE None

\* call_one_found without the guards on is_notification
call_one_found_unguarded(req, o) ==
    IF o.kind = "Ok" THEN Some(Response_ok(req.id, o.value, 1))
    ELSE IF o.kind = "Err" THEN Some(Response_error(req.id, o.error, 1))
    ELSE None

\* Registry::call_one, the arms for the outcome o of the awaited handler
call_one_found(req, o) ==
    IF o.kind = "Ok" /\ ~is_notification(req.id)
    THEN Some(Response_ok(req.id, o.value, 1))
    ELSE IF o.kind = "Err" /\ ~is_notification(req.id)
    THEN Some(Response_error(req.id, o.error, 1))
    ELSE None

\* Option<Response>::map(to_value)
map_to_value(r) == IF r = None THEN None ELSE Some(to_value_one(r[1]))

\* batch_reply without the is_empty test
batch_reply_always(resp) == Some(to_value_vec(resp))

\* Registry::call, the end of the '[' arm: an empty Vec gives no reply
batch_reply(resp) == IF resp = <<>> THEN None ELSE Some(to_value_vec(resp))

\* Registry::call up to the first await: the match on the first byte, the
\* parse, and for a single request the lookup of call_one; for a batch the
\* locals of call_batch (an empty batch returns at once).
call(p) ==
    /\ pc \in {"init", "idle"}
    /\ payload' = p
    /\ idx' = 1
    /\ wait' = 0
    /\ chan' = <<>>
    /\ response' = <<>>
    /\ written' = [written EXCEPT !.replaced = {}]
    /\ UNCHANGED <<methods, prev>>
    /\ IF FirstByte(p) = "{" THEN
          LET r == from_slice_request(p) IN
          /\ senders' = 0
          /\ IF r = None THEN
                /\ batch_req' = <<>>
                /\ task' = <<>>
                /\ built' = <<Response_error(IdNull, Error_parse_error, 0)>>
                /\ reply' = Some(parse_error)
                /\ pc' = "returned"
             ELSE
                /\ batch_req' = <<r[1]>>
                /\ task' = <<"none">>
                /\ IF get_method(r[1].method) = None THEN
                      /\ built' = call_one_not_found(r[1])
                      /\ reply' = map_to_value(call_one_not_found(r[1]))
                      /\ pc' = "returned"
                   ELSE
                      /\ built' = <<>>
                      /\ reply' = None
                      /\ pc' = "call_one"
       ELSE IF FirstByte(p) = "[" THEN
          LET r == from_slice_batch(p) IN
          IF r = None THEN
             /\ batch_req' = <<>>
             /\ task' = <<>>
             /\ senders' = 0
             /\ built' = <<Response_error(IdNull, Error_parse_error, 0)>>
             /\ reply' = Some(parse_error)
             /\ pc' = "returned"
          ELSE
             /\ batch_req' = r[1]
             /\ task' = [k \in 1..Len(r[1]) |-> "none"]
             /\ built' = <<>>
             /\ IF r[1] = <<>> THEN
                   /\ senders' = 0
                   /\ reply' = batch_reply(<<>>)
                   /\ pc' = "returned"
                ELSE
                   /\ senders' = 1
                   /\ reply' = None
                   /\ pc' = "submit"
       ELSE
          /\ batch_req' = <<>>
          /\ task' = <<>>
          /\ senders' = 0
          /\ built' = <<Response_error(IdNull, Error_invalid_request, 0)>>
          /\ reply' = Some(invalid_request)
          /\ pc' = "returned"
    /\ outcome' = [k \in DOMAIN batch_req' |-> NotRun]

\* Registry::call_one after the await: the handler's future has been polled
\* to its end with outcome o.  A panic unwinds through call.
call_one_resume ==
    /\ pc = "call_one"
    /\ \E o \in Outcomes(get_method(batch_req[1].method)[1], batch_req[1].params) :
          /\ outcome' = [outcome EXCEPT ![1] = o]
          /\ built' = call_one_found(batch_req[1], o)
          /\ IF o.kind = "Panic"
             THEN pc' = "unwound" /\ reply' = None
             ELSE /\ pc' = "returned"
                  /\ reply' = map_to_value(call_one_found(batch_req[1], o))
    /\ UNCHANGED <<methods, payload, batch_req, idx, wait, chan, senders,
                   task, response, written, prev>>

\* call_batch_arm without the guards on is_notification
call_batch_arm_unguarded(req) ==
    IF get_method(req.method) # None THEN "respond" ELSE "not_found"

\* call_batch_arm with the method-not-found error discarded like a
\* notification's result
call_batch_arm_drop_not_found(req) ==
    IF get_method(req.method) # None
    THEN IF ~is_notification(req.id) THEN "respond" ELSE "notify"
    ELSE "skip"

\* call_batch_arm with at most one sending task per batch
call_batch_arm_capped(req) ==
    IF get_method(req.method) # None
    THEN IF ~is_notification(req.id)
         THEN IF wait = 0 THEN "respond" ELSE "skip"
         ELSE "notify"
    ELSE IF ~is_notification(req.id) THEN "not_found" ELSE "skip"

\* call_batch_arm giving up on the entries that follow an error Response
call_batch_arm_stop_at_error(req) ==
    IF \E j \in DOMAIN response : response[j].error # None THEN "skip"
    ELSE IF get_method(req.method) # None
    THEN IF ~is_notification(req.id) THEN "respond" ELSE "notify"
    ELSE IF ~is_notification(req.id) THEN "not_found" ELSE "skip"

\* Registry::call_batch, the arm of the match in the for loop that req takes
call_batch_arm(req) ==
    IF get_method(req.method) # None
    THEN IF ~is_notification(req.id) THEN "respond" ELSE "notify"
    ELSE IF ~is_notification(req.id) THEN "not_found" ELSE "skip"

\* task_response with the id of the first request of the batch
task_response_first_id(req, o, k) ==
    IF o.kind = "Ok" THEN Response_ok(batch_req[1].id, o.value, k)
    ELSE Response_error(batch_req[1].id, o.error, k)

\* The Response a spawned task sends for outcome o of its handler
task_response(req, o, k) ==
    IF o.kind = "Ok" THEN Response_ok(req.id, o.value, k)
    ELSE Response_error(req.id, o.error, k)

\* push putting the element at the front of the Vec
push_front(vec, v) == <<v>> \o vec

\* Vec::push on response: the element goes to the end
push(vec, v) == Append(vec, v)

\* wait_after counting every spawned task, the notifications' too
wait_after_every_spawn(arm, w) ==
    IF arm \in {"respond", "notify"} THEN w + 1 ELSE w

\* Registry::call_batch, `wait += 1` in the arm that spawns a sending task
wait_after(arm, w) == IF arm = "respond" THEN w + 1 ELSE w

\* Registry::call_batch, one iteration of the for loop.  spawn only hands
\* the task to the runtime.  After the last iteration the while loop is
\* entered; with wait = 0 it is skipped and call returns, dropping tx.
call_batch_submit ==
    /\ pc = "submit"
    /\ LET req == batch_req[idx]
           arm == call_batch_arm(req)
           wait1 == wait_after(arm, wait)
           senders1 == IF arm = "respond" THEN senders + 1 ELSE senders
           response1 ==
               IF arm = "not_found"
               THEN push(response,
                           Response_error(req.id, Error_method_not_found, idx))
               ELSE response
           last == idx = Len(batch_req)
       IN  /\ task' = [task EXCEPT ![idx] =
                          IF arm = "respond" THEN "responder"
                          ELSE IF arm = "notify" THEN "notifier"
                          ELSE "none"]
           /\ idx' = idx + 1
           /\ wait' = wait1
           /\ response' = response1
           /\ built' = IF arm = "not_found"
                       THEN Append(built,
                                   Response_error(req.id, Error_method_not_found,
                                                  idx))
                       ELSE built
           /\ IF last /\ wait1 = 0
              THEN /\ pc' = "returned"
                   /\ senders' = senders1 - 1
                   /\ reply' = batch_reply(response1)
              ELSE /\ pc' = IF last THEN "recv" ELSE "submit"
                   /\ senders' = senders1
                   /\ reply' = reply
    /\ UNCHANGED <<methods, payload, batch_req, chan, outcome, written, prev>>

\* send putting the message at the front of the queue
send_front(queue, v) == <<v>> \o queue

\* UnboundedSender::send: the message goes to the back of the queue
send(queue, v) == Append(queue, v)

\* The task spawned for a request with an id: the handler's future is awaited
\* and the Response is sent; the task ends and its clone of tx is dropped.
\* When the handler panics the task ends without sending.
task_run(k) ==
    /\ k \in DOMAIN task
    /\ task[k] = "responder"
    /\ \E o \in Outcomes(get_method(batch_req[k].method)[1], batch_req[k].params) :
          /\ outcome' = [outcome EXCEPT ![k] = o]
          /\ IF o.kind = "Panic"
             THEN /\ task' = [task EXCEPT ![k] = "aborted"]
                  /\ chan' = chan
                  /\ built' = built
             ELSE /\ task' = [task EXCEPT ![k] = "sent"]
                  /\ chan' = send(chan, task_response(batch_req[k], o, k))
                  /\ built' = Append(built, task_response(batch_req[k], o, k))
    /\ senders' = senders - 1
    /\ UNCHANGED <<methods, pc, payload, batch_req, idx, wait, response, reply,
                   written, prev>>

\* The task spawned for a notification of a batch: `method(req.params);`
\* calls the Method, which only builds the handler's future, and drops that
\* future without .await, so no handler code runs.  The task may run after
\* call_batch has returned.
notify_run(k) ==
    /\ k \in DOMAIN task
    /\ task[k] = "notifier"
    /\ task' = [task EXCEPT ![k] = "dropped"]
    /\ UNCHANGED <<methods, pc, payload, batch_req, idx, wait, chan, senders,
                   response, reply, outcome, built, written, prev>>

\* rx.recv().await is ready: a message is queued, or the queue is empty and
\* every Sender has been dropped.
recv_ready == chan # <<>> \/ senders = 0

\* Registry::call_batch, one iteration of the while loop (wait > 0 here).
\* On leaving the loop call returns and tx is dropped.
call_batch_recv ==
    /\ pc = "recv"
    /\ recv_ready
    /\ IF chan # <<>>
       THEN LET response1 == push(response, Head(chan)) IN
            /\ chan' = Tail(chan)
            /\ response' = response1
            /\ wait' = wait - 1
            /\ IF wait - 1 = 0
               THEN /\ pc' = "returned"
                    /\ senders' = senders - 1
                    /\ reply' = batch_reply(response1)
               ELSE UNCHANGED <<pc, senders, reply>>
       ELSE /\ pc' = "returned"
            /\ senders' = 0
            /\ reply' = batch_reply(response)
            /\ UNCHANGED <<chan, response, wait>>
    /\ UNCHANGED <<methods, payload, batch_req, idx, task, outcome, built,
                   written, prev>>

\* The caller of Registry::call (json_rpc in examples/hyper.rs) consumes the
\* reply, or the panic that unwound through call ends the caller's task;
\* the server then takes the next request.  The tasks a batch left behind
\* are no longer followed.
serve_next ==
    /\ pc \in {"returned", "unwound"}
    /\ pc' = "idle"
    /\ payload' = Payload(FALSE, "other", FALSE, <<>>)
    /\ batch_req' = <<>>
    /\ idx' = 1
    /\ wait' = 0
    /\ chan' = <<>>
    /\ senders' = 0
    /\ task' = <<>>
    /\ response' = <<>>
    /\ reply' = None
    /\ outcome' = <<>>
    /\ built' = <<>>
    /\ UNCHANGED <<methods, written, prev>>

Next ==
    \/ \E name \in Names, method \in Handlers : register_method(name, method)
    \/ \E p \in Payloads : call(p)
    \/ call_one_resume
    \/ call_batch_submit
    \/ \E k \in 1..MaxBatch : task_run(k)
    \/ \E k \in 1..MaxBatch : notify_run(k)
    \/ call_batch_recv
    \/ serve_next

Spec == Init /\ [][Next]_vars

\* The runtime polls every spawned task and every ready caller; nothing is
\* assumed of the tasks of notifications.
FairSpec ==
    /\ Spec
    /\ WF_vars(call_one_resume)
    /\ WF_vars(call_batch_submit)
    /\ WF_vars(call_batch_recv)
    /\ \A k \in 1..MaxBatch : WF_vars(task_run(k))

\* serve_next, the caller keeping the payload and the reply of this call, a
\* single request or a payload that was refused unparsed, to compare a
\* later call with.
serve_next_remember ==
    /\ pc = "returned"
    /\ ~prev.set
    /\ payload.kind # "arr"
    /\ prev' = [set |-> TRUE, payload |-> payload, reply |-> reply]
    /\ pc' = "idle"
    /\ payload' = Payload(FALSE, "other", FALSE, <<>>)
    /\ batch_req' = <<>>
    /\ idx' = 1
    /\ wait' = 0
    /\ chan' = <<>>
    /\ senders' = 0
    /\ task' = <<>>
    /\ response' = <<>>
    /\ reply' = None
    /\ outcome' = <<>>
    /\ built' = <<>>
    /\ UNCHANGED <<methods, written>>

\* The payloads of a server that is sent single requests and batches of
\* one request
DetPayloads == {p \in Payloads : Len(p.members) <= 1}

\* A server whose caller compares the replies of two calls
DetNext ==
    \/ \E name \in Names, method \in Handlers : register_method(name, method)
    \/ \E p \in DetPayloads : call(p)
    \/ call_one_resume
    \/ call_batch_submit
    \/ \E k \in 1..MaxBatch : task_run(k)
    \/ \E k \in 1..MaxBatch : notify_run(k)
    \/ call_batch_recv
    \/ serve_next
    \/ serve_next_remember

DetSpec == Init /\ [][DetNext]_vars

\* The tables of Registry::register: that of System, and every table of two
\* pairs for the names of System, a name given twice included
Tables ==
    {System_methods}
    \cup {<<<<n1, m1>>, <<n2, m2>>>> :
            n1 \in {"system.time", "system.issue"}, m1 \in AllMethods,
            n2 \in {"system.time", "system.issue"}, m2 \in AllMethods}

\* The registrations made while the server is set up (init in
\* examples/hyper.rs), in any number and any order
RegNext ==
    \/ \E name \in AllNames, method \in AllMethods : register_method(name, method)
    \/ \E table \in Tables : register(table)

RegSpec == Init /\ [][RegNext]_vars

(***************************************************************************)
(* Properties.  They are stated on the payload as it was received and on   *)
(* the reply as it is returned, not on the parsed Request.                 *)
(***************************************************************************)
Returned == pc = "returned"
IsSingle == ~payload.lead /\ payload.kind = "obj"
IsBatch == ~payload.lead /\ payload.kind = "arr"

\* The payload of the call was parsed into batch_req
ParsedOk ==
    /\ payload.syntax
    /\ IsSingle \/ IsBatch
    /\ Len(batch_req) = Len(payload.members)

RawId(k) == payload.members[k].id
RawMethod(k) == payload.members[k].method.s
IsNotificationEntry(k) == RawId(k).t = "absent"
Registered(name) == name \in DOMAIN methods /\ methods[name] # "none"

ReplyItems == IF reply = None THEN <<>> ELSE reply[1].items

\* The JSON objects of section 6 of the specification
OkObject(id, v) ==
    [jsonrpc |-> "2.0", result |-> <<v>>, error |-> <<>>, id |-> id]
ErrObject(id, code, message) ==
    [jsonrpc |-> "2.0", result |-> <<>>,
     error |-> <<[code |-> code, message |-> message, data |-> <<>>]>>,
     id |-> id]

\* C1: a request without id never gets a Response: none built for its
\* position is collected or queued, every object of a batch reply carries the
\* id of the entry with an id it was built for, and a single notification
\* yields an absent reply (method unregistered, handler success or failure).
C1_NotificationSilent ==
    /\ ParsedOk =>
         \A k \in DOMAIN batch_req :
            IsNotificationEntry(k) =>
               /\ \A j \in DOMAIN response : response[j].origin # k
               /\ \A j \in DOMAIN chan : chan[j].origin # k
    /\ Returned /\ ParsedOk /\ IsSingle /\ IsNotificationEntry(1)
         => reply = None
    /\ Returned /\ ParsedOk /\ IsBatch =>
         /\ Len(ReplyItems) = Len(response)
         /\ \A j \in DOMAIN response :
               /\ ~IsNotificationEntry(response[j].origin)
               /\ ReplyItems[j].id = RawId(response[j].origin)

\* A batch of a request and a notification of a registered method has
\* returned a reply, and the notification's task has ended.
C1_Witness ==
    /\ Returned /\ ParsedOk /\ IsBatch
    /\ reply # None
    /\ \E k \in DOMAIN batch_req :
          IsNotificationEntry(k) /\ Registered(RawMethod(k))
          /\ task[k] = "dropped"

\* C2: a parsed single request with an id and a registered method returns
\* one object with the request's id: the handler's value as result when it
\* succeeded, the handler's Error unchanged when it failed.
C2_SingleResponse ==
    Returned /\ ParsedOk /\ IsSingle /\ ~IsNotificationEntry(1)
    /\ Registered(RawMethod(1)) =>
       /\ reply # None
       /\ ~reply[1].array
       /\ Len(reply[1].items) = 1
       /\ outcome[1].kind \in {"Ok", "Err"}
       /\ outcome[1].kind = "Ok" =>
             reply[1].items[1] = OkObject(RawId(1), outcome[1].value)
       /\ outcome[1].kind = "Err" =>
             reply[1].items[1] =
                ErrObject(RawId(1), outcome[1].error.code,
                          outcome[1].error.message)
       /\ methods[RawMethod(1)] = "sum"
          /\ payload.members[1].params \in {P34, PObj34} =>
             reply[1].items[1] = OkObject(RawId(1), JInt(7))

\* A single request whose handler failed with "Server error" has returned.
C2_Witness ==
    /\ Returned /\ ParsedOk /\ IsSingle /\ ~IsNotificationEntry(1)
    /\ outcome[1].kind = "Err"
    /\ outcome[1].error.code = server_error_code
    /\ reply # None

\* C3: a parsed request with an id whose method is not registered gets the
\* error object -32601 "Method not found" with its own id, alone or in a
\* batch, and no handler runs for it.
C3_MethodNotFound ==
    Returned /\ ParsedOk =>
       \A k \in DOMAIN batch_req :
          ~IsNotificationEntry(k) /\ ~Registered(RawMethod(k)) =>
             /\ outcome[k] = NotRun
             /\ task[k] = "none"
             /\ IsSingle =>
                   reply = Some([array |-> FALSE,
                                 items |-> <<ErrObject(RawId(k), -32601,
                                                       "Method not found")>>])
             /\ IsBatch =>
                   /\ reply # None
                   /\ reply[1].array
                   /\ \E j \in DOMAIN ReplyItems :
                         /\ response[j].origin = k
                         /\ ReplyItems[j] =
                               ErrObject(RawId(k), -32601, "Method not found")

\* A batch of two requests, neither method registered, has returned two
\* error objects.
C3_Witness ==
    /\ Returned /\ ParsedOk /\ IsBatch
    /\ Len(batch_req) = 2
    /\ \A k \in DOMAIN batch_req :
          ~IsNotificationEntry(k) /\ ~Registered(RawMethod(k))
    /\ Len(ReplyItems) = 2

\* An element of the payload that is not a Request: not an object, a version
\* tag that is not the string "2.0", a method that is not a string, or an id
\* that is neither an integer, a string, null nor omitted.
BadMember(m) ==
    \/ m.form # "object"
    \/ m.jsonrpc # JStr("2.0")
    \/ m.method.t # "str"
    \/ m.id.t \notin {"int", "str", "null", "absent"}

\* {"error":{"code":-32700,"message":"Parse error"},"id":null,"jsonrpc":"2.0"}
ParseErrorReply ==
    Some([array |-> FALSE,
          items |-> <<ErrObject(JNull, -32700, "Parse error")>>])

NoHandlerRan ==
    /\ \A k \in DOMAIN outcome : outcome[k] = NotRun
    /\ \A k \in DOMAIN task : task[k] = "none"

\* C4: a payload starting with '{' or '[' that is malformed JSON, has an
\* element that is not a Request, or otherwise fails to parse, returns the one
\* object -32700 "Parse error" with id null, and no handler runs.
C4_ParseError ==
    Returned /\ (IsSingle \/ IsBatch)
    /\ (\/ ~payload.syntax
        \/ \E k \in DOMAIN payload.members : BadMember(payload.members[k])
        \/ ~ParsedOk) =>
       /\ reply = ParseErrorReply
       /\ NoHandlerRan

\* A well-formed JSON object whose id is 1.1 has been answered with the
\* parse error.
C4_Witness ==
    /\ Returned /\ IsSingle /\ payload.syntax
    /\ payload.members[1].id.t = "float"
    /\ ~BadMember([payload.members[1] EXCEPT !.id = JInt(1)])
    /\ reply = ParseErrorReply

\* C5: a batch with one element that is not a Request is rejected whole: the
\* call returns at once with the single parse-error object, never an array,
\* nothing is spawned, queued or collected, and no handler runs, also not for
\* the well-formed elements before the bad one.
C5_BatchRejectedWhole ==
    IsBatch /\ payload.syntax
    /\ (\E k \in DOMAIN payload.members : BadMember(payload.members[k])) =>
       /\ Returned
       /\ reply = ParseErrorReply
       /\ NoHandlerRan
       /\ chan = <<>> /\ response = <<>> /\ wait = 0

\* A batch whose first element is a request for a registered method and whose
\* second element has a bad version tag has been rejected.
C5_Witness ==
    /\ Returned /\ IsBatch /\ payload.syntax
    /\ Len(payload.members) = 2
    /\ ~BadMember(payload.members[1])
    /\ ~IsNotificationEntry(1)
    /\ Registered(RawMethod(1))
    /\ BadMember(payload.members[2])
    /\ reply = ParseErrorReply

\* The values an id takes in a reply
ReplyIds == {ReplyItems[j].id : j \in DOMAIN ReplyItems}

\* C6: when a parsed batch whose handlers all completed returns, the reply
\* has one object per entry with an id, each entry with an id has exactly one
\* Response, and every id value occurs as often in the reply as among the
\* entries with an id.
C6_BatchIdsMultiset ==
    Returned /\ ParsedOk /\ IsBatch
    /\ (\A k \in DOMAIN outcome : outcome[k].kind # "Panic") =>
       LET with_id == {k \in DOMAIN batch_req : ~IsNotificationEntry(k)} IN
       /\ Len(ReplyItems) = Cardinality(with_id)
       /\ reply # None => reply[1].array
       /\ \A k \in with_id :
             Cardinality({j \in DOMAIN response : response[j].origin = k}) = 1
       /\ \A v \in ReplyIds \cup {RawId(k) : k \in with_id} :
             Cardinality({j \in DOMAIN ReplyItems : ReplyItems[j].id = v})
             = Cardinality({k \in with_id : RawId(k) = v})

\* A batch of two requests has returned with the second entry's Response
\* first.
C6_Witness ==
    /\ Returned /\ ParsedOk /\ IsBatch
    /\ Len(batch_req) = 2 /\ Len(response) = 2
    /\ task[1] = "sent" /\ task[2] = "sent"
    /\ response[1].origin = 2
    /\ response[2].origin = 1

\* C7: a batch never returns an empty array: the reply is absent exactly when
\* nothing was collected (no entry, or notifications only), and an array with
\* at least one object otherwise.
C7_NoEmptyArray ==
    Returned /\ IsBatch =>
       /\ reply # None => Len(reply[1].items) > 0
       /\ ParsedOk =>
             /\ (response = <<>>) <=> (reply = None)
             /\ (\A k \in DOMAIN batch_req : IsNotificationEntry(k))
                   => reply = None
             /\ (\E k \in DOMAIN batch_req : ~IsNotificationEntry(k))
                   => reply # None /\ reply[1].array

\* A batch of notifications only, one of them for a registered method, has
\* returned no reply.
C7_Witness ==
    /\ Returned /\ ParsedOk /\ IsBatch
    /\ Len(batch_req) > 0
    /\ \A k \in DOMAIN batch_req : IsNotificationEntry(k)
    /\ \E k \in DOMAIN batch_req : Registered(RawMethod(k))
    /\ reply = None

\* C8: in a batch, the task of a notification for a registered method runs
\* the handler to completion before it ends, as call_one does for a single
\* notification.
C8_BatchNotificationRuns ==
    /\ \A k \in DOMAIN task :
          task[k] = "dropped" => outcome[k].kind \in {"Ok", "Err", "Panic"}
    /\ Returned /\ ParsedOk /\ IsSingle /\ IsNotificationEntry(1)
       /\ Registered(RawMethod(1)) => outcome[1].kind \in {"Ok", "Err"}

\* C9: when every sending task of a batch has ended and one of them ended
\* without sending, the coordinator, once it has taken what was queued, sees
\* the queue closed and can leave the loop with what it collected.
C9_ClosedQueueReturnsPartial ==
    pc = "recv" /\ chan = <<>>
    /\ (\A k \in DOMAIN task : task[k] # "responder")
    /\ (\E k \in DOMAIN task : task[k] = "aborted")
       => ENABLED call_batch_recv

\* C10: call_batch returns only with wait = 0, the queue empty, and as many
\* Responses taken from the queue as tasks were spawned for entries with an
\* id; and a call_batch in progress returns unless one of those tasks ended
\* without sending, whatever the tasks of notifications do.
C10_DrainsExactly ==
    /\ [](Returned /\ ParsedOk /\ IsBatch =>
            /\ wait = 0
            /\ chan = <<>>
            /\ Cardinality({j \in DOMAIN response :
                               task[response[j].origin] = "sent"})
               = Cardinality({k \in DOMAIN task :
                                 task[k] \in {"responder", "sent", "aborted"}}))
    /\ (pc \in {"submit", "recv"}
          ~> (Returned \/ \E k \in DOMAIN task : task[k] = "aborted"))

\* A batch has returned the Response of a request while the task of its
\* notification has not run yet.
C10_Witness ==
    /\ Returned /\ ParsedOk /\ IsBatch
    /\ \E k \in DOMAIN task : task[k] = "notifier"
    /\ \E k \in DOMAIN task : task[k] = "sent"
    /\ Len(ReplyItems) = 1

\* The Response was sent by the task of its entry (not built by call_batch)
FromHandler(r) == r.origin \in DOMAIN task /\ task[r.origin] = "sent"

\* C11 as claimed: the Responses of a batch reply are in the order in which
\* they were produced, for any two responding entries.
C11_CompletionOrder ==
    Returned /\ ParsedOk /\ IsBatch => response = built

\* C11 as amended: the Responses sent by handlers' tasks are collected in the
\* order in which they were sent (what was sent is what was collected followed
\* by what is still queued); submission order plays no part.
C11_QueueOrder ==
    ParsedOk /\ IsBatch =>
       SelectSeq(built, FromHandler) = SelectSeq(response, FromHandler) \o chan

\* A batch of two requests has returned the Responses in the order 2, 1 in
\* which the handlers produced them.
C11_Witness ==
    /\ Returned /\ ParsedOk /\ IsBatch
    /\ Len(response) = 2
    /\ FromHandler(response[1]) /\ FromHandler(response[2])
    /\ response[1].origin = 2
    /\ built = response

\* A JSON object with the fields of a Request, whatever its params
RequestShaped(m) ==
    /\ m.form = "object"
    /\ m.jsonrpc = JStr("2.0")
    /\ m.method.t = "str"
    /\ m.id.t \in {"int", "str", "null", "absent"}

\* C12: a request object without params, with a valid version tag, method
\* and id, is parsed and reaches the lookup of its method; it is not answered
\* with the parse error.
C12_OmittedParamsParses ==
    Returned /\ IsSingle /\ payload.syntax
    /\ RequestShaped(payload.members[1])
    /\ payload.members[1].params.t = "absent" =>
       /\ Len(batch_req) = 1
       /\ reply # ParseErrorReply

\* C13: white space before the first '{' or '[' does not change the
\* classification: the payload is parsed as a single Request or as a batch.
C13_TrimmedClassification ==
    Returned /\ payload.lead /\ payload.syntax
    /\ payload.kind \in {"obj", "arr"}
    /\ (\A k \in DOMAIN payload.members :
           RequestShaped(payload.members[k])
           /\ payload.members[k].params.t # "absent") =>
       Len(batch_req) = Len(payload.members)

\* {"error":{"code":-32600,"message":"Invalid Request"},"id":null,"jsonrpc":"2.0"}
InvalidRequestReply ==
    Some([array |-> FALSE,
          items |-> <<ErrObject(JNull, -32600, "Invalid Request")>>])

\* C14: a payload whose first byte is neither '{' nor '[' (white space
\* included) returns the one object -32600 "Invalid Request" with id null;
\* nothing is parsed and no handler runs.
C14_InvalidRequest ==
    Returned /\ (payload.lead \/ payload.kind = "other") =>
       /\ reply = InvalidRequestReply
       /\ batch_req = <<>>
       /\ NoHandlerRan

\* A payload that is a well-formed request after a leading white space has
\* been answered with Invalid Request, unparsed.
C14_Witness ==
    /\ Returned /\ payload.lead /\ payload.syntax
    /\ payload.kind = "obj"
    /\ RequestShaped(payload.members[1])
    /\ batch_req = <<>>
    /\ reply = InvalidRequestReply

\* Entry k of the batch failed on its own: its method is not registered, or
\* its handler returned an Error.
FailedEntry(k) ==
    \/ ~IsNotificationEntry(k) /\ ~Registered(RawMethod(k))
    \/ outcome[k].kind = "Err"

\* C15: when a parsed batch returns, every entry with an id and a registered
\* method has had its handler run and has exactly one object in the reply,
\* the one its own handler's outcome determines, whatever happened to the
\* other entries (method not registered, handler Error).
C15_EntryIsolation ==
    Returned /\ ParsedOk /\ IsBatch =>
       \A k \in DOMAIN batch_req :
          ~IsNotificationEntry(k) /\ Registered(RawMethod(k)) =>
             /\ outcome[k].kind \in {"Ok", "Err"}
             /\ \E j \in DOMAIN ReplyItems :
                   /\ response[j].origin = k
                   /\ \A i \in DOMAIN response : response[i].origin = k => i = j
                   /\ outcome[k].kind = "Ok" =>
                         ReplyItems[j] = OkObject(RawId(k), outcome[k].value)
                   /\ outcome[k].kind = "Err" =>
                         ReplyItems[j] =
                            ErrObject(RawId(k), outcome[k].error.code,
                                      outcome[k].error.message)
                   /\ methods[RawMethod(k)] = "sum"
                      /\ payload.members[k].params \in {P34, PObj34} =>
                         ReplyItems[j] = OkObject(RawId(k), JInt(7))

\* A batch has returned in which the first entry failed on its own and the
\* second entry's handler succeeded; both are answered.
C15_Witness ==
    /\ Returned /\ ParsedOk /\ IsBatch
    /\ Len(batch_req) = 2
    /\ FailedEntry(1)
    /\ ~IsNotificationEntry(2) /\ outcome[2].kind = "Ok"
    /\ Len(ReplyItems) = 2

\* The invariant of struct Response, which Response::ok and Response::error
\* assert of the id
WellFormedResponse(r) ==
    /\ (r.result = None) # (r.error = None)
    /\ ~is_notification(r.id)

\* C16: every Response built during a call (collected, queued or only
\* built) has exactly one of result and error and an id that is not the
\* notification marker; every object of a reply has exactly one of the keys
\* result and error.
C16_ResponseInvariant ==
    /\ \A j \in DOMAIN built : WellFormedResponse(built[j])
    /\ \A j \in DOMAIN chan : WellFormedResponse(chan[j])
    /\ \A j \in DOMAIN response : WellFormedResponse(response[j])
    /\ \A j \in DOMAIN ReplyItems :
          (ReplyItems[j].result = <<>>) # (ReplyItems[j].error = <<>>)

\* A batch has returned for which a Response with a result and a Response
\* with an error were built, and both are in the reply.
C16_Witness ==
    /\ Returned /\ ParsedOk /\ IsBatch
    /\ \E j \in DOMAIN built : built[j].result # None
    /\ \E j \in DOMAIN built : built[j].error # None
    /\ Len(ReplyItems) = 2

\* The Method the last pair of table for name holds, none when no pair is
\* for name
LastFor(table, name) ==
    LET I == {i \in DOMAIN table : table[i][1] = name} IN
    IF I = {} THEN None
    ELSE Some(table[CHOOSE i \in I : \A j \in I : j <= i][2])

\* Every registration a step can be: one pair, or a table
Registrations ==
    Tables \cup {<<<<n, m>>>> : n \in AllNames, m \in AllMethods}

\* C17: after any sequence of registrations get_method(name) is the Method
\* of the latest registration under name and None for a name never
\* registered; and every registration step sets the names of its pairs to
\* the last Method given for each and leaves the lookup of every other name
\* as it was.
C17_LastWriteWins ==
    /\ [](\A n \in AllNames :
             get_method(n) = IF written.latest[n] = "none" THEN None
                             ELSE Some(written.latest[n]))
    /\ [][\E t \in Registrations :
             \A n \in AllNames :
                get_method(n)' = IF LastFor(t, n) = None THEN get_method(n)
                                 ELSE LastFor(t, n)]_vars

\* "sum" has been registered more than once and resolves to the latest
\* Method, "sum1" was never registered, and the table of System is in.
C17_Witness ==
    /\ pc = "init"
    /\ "sum" \in written.replaced
    /\ get_method("sum") = Some("time")
    /\ get_method("sum1") = None
    /\ get_method("system.time") = Some("time")
    /\ get_method("system.issue") = Some("issue")

\* The handler the call resolves to, if any, is one whose outcome depends
\* only on its params: tests::sum, not System::time
OnlyParams ==
    ParsedOk /\ Registered(RawMethod(1)) => methods[RawMethod(1)] = "sum"

\* C18: a call with the bytes of an earlier single call, against the same
\* registry and with a handler that depends only on its params, returns the
\* reply the earlier call returned, whatever was called in between.
C18_Deterministic ==
    Returned /\ prev.set /\ payload = prev.payload /\ OnlyParams =>
       reply = prev.reply

\* The request for sum of 3 and 4 with id 1 was answered, and after other
\* calls is answered again, with the same object.
C18_Witness ==
    /\ Returned /\ prev.set /\ payload = prev.payload
    /\ ParsedOk /\ IsSingle
    /\ Registered(RawMethod(1)) /\ methods[RawMethod(1)] = "sum"
    /\ reply = Some([array |-> FALSE, items |-> <<OkObject(JInt(1), JInt(7))>>])
    /\ reply = prev.reply

\* C19: a parsed request is a notification exactly when its id field is
\* omitted; a request with an id that is null, an integer or a text gets,
\* when the call returns, an object whose id is that same JSON value (null
\* for null), its method registered or not.
C19_OnlyOmittedIdIsNotification ==
    /\ ParsedOk =>
          \A k \in DOMAIN batch_req :
             is_notification(batch_req[k].id) <=> RawId(k).t = "absent"
    /\ Returned /\ ParsedOk =>
          \A k \in DOMAIN batch_req :
             RawId(k).t \in {"null", "int", "str"} =>
                /\ reply # None
                /\ IsSingle => ReplyItems[1].id = RawId(1)
                /\ IsBatch =>
                      \E j \in DOMAIN ReplyItems :
                         response[j].origin = k /\ ReplyItems[j].id = RawId(k)

\* The request for sum of 3 and 4 with "id": null has returned 7 with
\* "id": null.
C19_Witness ==
    /\ Returned /\ ParsedOk /\ IsSingle
    /\ RawId(1) = JNull
    /\ Registered(RawMethod(1))
    /\ reply = Some([array |-> FALSE, items |-> <<OkObject(JNull, JInt(7))>>])

\* call_batch is running for a parsed batch
InBatch == pc \in {"submit", "recv"} /\ ParsedOk /\ IsBatch

\* C20: while a batch is served, no Response of a handler is collected
\* before every entry has been submitted; each submitted entry has a task
\* exactly when its method is registered, an entry not yet submitted has
\* none; and the running sending tasks are as many as were spawned and have
\* not ended, with no limit below the size of the batch.
C20_FanOutBeforeFanIn ==
    (InBatch \/ (Returned /\ ParsedOk /\ IsBatch)) =>
       /\ (\E j \in DOMAIN response : task[response[j].origin] # "none")
             => idx = Len(batch_req) + 1
       /\ \A k \in DOMAIN batch_req :
             IF k < idx
             THEN task[k] # "none" <=> Registered(RawMethod(k))
             ELSE task[k] = "none"
       /\ InBatch =>
             senders = 1 + Cardinality({k \in DOMAIN task :
                                           task[k] = "responder"})

\* Every entry of a batch of the largest size has been submitted and the
\* tasks of all of them are in flight, none having run yet.
C20_Witness ==
    /\ pc = "recv" /\ ParsedOk /\ IsBatch
    /\ Len(batch_req) = MaxBatch
    /\ \A k \in DOMAIN task : task[k] = "responder"
    /\ response = <<>> /\ chan = <<>>

\* The Response at position j of the collected Vec is the method-not-found
\* error of an entry whose method is not registered
IsNotFoundAt(j) == ~Registered(RawMethod(response[j].origin))

\* C21: in the Vec a batch collects, and so in its reply, every
\* method-not-found Response comes before every Response of a handler, and
\* the method-not-found Responses are in the submission order of their
\* entries, whichever handler completes first.
C21_NotFoundFirst ==
    /\ ParsedOk /\ IsBatch =>
          \A i, j \in DOMAIN response :
             i < j /\ IsNotFoundAt(j) =>
                /\ IsNotFoundAt(i)
                /\ response[i].origin < response[j].origin
    /\ Returned /\ ParsedOk /\ IsBatch =>
          /\ Len(ReplyItems) = Len(response)
          /\ \A j \in DOMAIN response :
                IsNotFoundAt(j) =>
                   ReplyItems[j] =
                      ErrObject(RawId(response[j].origin), -32601,
                                "Method not found")

\* A batch has returned whose first entry was answered by its handler
\* before the second entry was found to have no method; the reply has the
\* method-not-found object first.
C21_Witness ==
    /\ Returned /\ ParsedOk /\ IsBatch
    /\ Len(response) = 2
    /\ built[1].origin = 1 /\ FromHandler(built[1])
    /\ response[1].origin = 2 /\ IsNotFoundAt(1)
    /\ response[2] = built[1]

====
